---------------------------- MODULE Spec2Model ----------------------------
(***************************************************************************)
(* Model of the HTTP transport, transport-session cache and per-token      *)
(* Graph client pool of the Teams MCP server.                              *)
(*                                                                         *)
(*   GraphService      (services/graph.ts)   client pool, process-wide     *)
(*                                           client, auth status           *)
(*   TransportCache    (transports/HttpTransportHandler.ts)                *)
(*   HttpTransportHandler.connect            request listener, timer       *)
(*                                                                         *)
(* Node runs one callback at a time: every action below is one run of a    *)
(* callback (or of an async function up to its next suspending await).     *)
(***************************************************************************)
EXTENDS Integers, Sequences, FiniteSets, TLC

(***************************************************************************)
(* Bounds of the model.                                                    *)
(***************************************************************************)
NumCallers == 2          \* concurrent callers of GraphService
MaxClients == 3          \* Graph Client objects constructed in a run
NumReqs == 2             \* HTTP requests in flight at the same time
MaxAcquires == 102       \* getTransport calls in a run
MaxPendingCloses == 1    \* unsettled close() promises when a request arrives
MaxTime == 50000         \* the clock stops here (ms)
MaxTokenLen == 5         \* longest AUTH_TOKEN, in symbols
MaxPortLen == 4          \* longest PORT value, in characters
MaxEmails == 2           \* longest userEmails list of create_chat
TickMs == 25000          \* the clock's step (ms)

(***************************************************************************)
(* Optional values: undefined is the empty sequence, a value v is <<v>>.   *)
(* Strings are sequences of one-character strings.                         *)
(***************************************************************************)
Undefined == <<>>
Some(v) == <<v>>

Callers == 1..NumCallers
Reqs == 1..NumReqs

\* ------------------------------------------------------------------------
\* String helpers
\* ------------------------------------------------------------------------

\* String.prototype.split(sep) for a one-character separator: the list of
\* the pieces between the separators (empty pieces included).
RECURSIVE SplitFrom(_, _, _, _)
SplitFrom(s, sep, i, cur) ==
    IF i > Len(s) THEN <<cur>>
    ELSE IF s[i] = sep THEN <<cur>> \o SplitFrom(s, sep, i + 1, <<>>)
    ELSE SplitFrom(s, sep, i + 1, Append(cur, s[i]))

split(s, sep) == SplitFrom(s, sep, 1, <<>>)

\* requestInfo?.headers?.authorization?.split(" ")[1]
TokenOf(authorization) ==
    IF authorization = Undefined THEN Undefined
    ELSE LET parts == split(authorization[1], " ")
         IN IF Len(parts) >= 2 THEN Some(parts[2]) ELSE Undefined

\* JavaScript truthiness of an optional string: defined and not empty.
Truthy(opt) == opt # Undefined /\ opt[1] # <<>>

\* The Authorization headers requests are sent with.
BearerA == <<"B", "e", "a", "r", "e", "r", " ", "A">>
BearerB == <<"B", "e", "a", "r", "e", "r", " ", "B">>
BearerOnly == <<"B", "e", "a", "r", "e", "r">>
BearerTwoSpaces == <<"B", "e", "a", "r", "e", "r", " ", " ", "A">>
BasicA == <<"B", "a", "s", "i", "c", " ", "A">>
AuthHeaders ==
    {Undefined, Some(BearerA), Some(BearerB), Some(BearerOnly),
     Some(BearerTwoSpaces), Some(BasicA)}

Tokens == {<<"A">>, <<"B">>}

\* ------------------------------------------------------------------------
\* The persisted credential store (~/.msgraph-mcp-auth.json)
\* ------------------------------------------------------------------------
NoExpiry == 0 - 1
NoFile == [kind |-> "missing"]
CorruptFile == [kind |-> "corrupt"]
StoredAuthInfo(a, t, e) ==
    [kind |-> "json", authenticated |-> a, token |-> t, expiresAt |-> e]
ExpiresSoon == 10 * 1000
AuthFiles ==
    {NoFile, CorruptFile,
     StoredAuthInfo(TRUE, <<"T">>, NoExpiry),
     StoredAuthInfo(TRUE, <<"T">>, ExpiresSoon),
     StoredAuthInfo(FALSE, <<"T">>, NoExpiry),
     StoredAuthInfo(TRUE, <<>>, NoExpiry)}

VARIABLES
    \* GraphService
    clientPoolPerToken,  \* token -> Client (0: no entry)
    clientsBuilt,        \* number of Client objects constructed so far
    client,              \* this.client (0: undefined)
    isInitialized,       \* this.isInitialized
    authInfo,            \* this.authInfo (Undefined or Some(record))
    authFile,            \* content of the persisted credential store
    AUTH_TOKEN,          \* process.env.AUTH_TOKEN (optional string)
    gpc,                 \* caller -> "idle" | "reading" | "me" | "done"
    gop,                 \* caller -> "getClient" | "getAuthStatus"
    gtoken,              \* caller -> the token of its request (optional)
    gclient,             \* caller -> the client it obtained (0: none)
    gresult,             \* caller -> what the call resolved to
    handed,              \* {<<token, client>>} every client obtained for a bearer
    gtool,               \* caller -> the tool invocation it runs (or NoTool)
    \* TransportCache
    cache,               \* the LRU list, least recently used first
    transportsBuilt,     \* number of CachedTransport ids drawn so far
    acquireCalls,        \* number of getTransport calls so far
    disposed,            \* log of the dispose callback's runs
    closing,             \* transports whose close() promise is pending
    closeErrorLogged,    \* the dispose catch has logged a close failure
    destroyed,           \* TransportCache.destroy has run
    \* HttpTransportHandler
    req,                 \* request slot -> the state of its request
    exited,              \* process.exit was called
    now,                 \* the clock (ms)
    listener             \* process.env.PORT, --port and the HTTP listener

graphVars ==
    <<clientPoolPerToken, clientsBuilt, client, isInitialized, authInfo,
      authFile, AUTH_TOKEN, gpc, gop, gtoken, gclient, gresult, handed, gtool>>

cacheVars ==
    <<cache, transportsBuilt, acquireCalls, disposed, closing,
      closeErrorLogged, destroyed>>

httpVars == <<cache, transportsBuilt, acquireCalls, disposed, closing,
              closeErrorLogged, destroyed, req, exited>>

vars == <<graphVars, httpVars, now, listener>>

\* ------------------------------------------------------------------------
\* GraphService: the per-token client pool
\* ------------------------------------------------------------------------

\* The state the service methods read and write, as one record.
GraphState ==
    [pool |-> clientPoolPerToken, built |-> clientsBuilt, client |-> client,
     isInitialized |-> isInitialized, authInfo |-> authInfo]

\* Client.initWithMiddleware(...): a new Client object, named by its number.
NewClient(st) == st.built + 1

\* A bearer branch that also installs the client as this.client.
PoolGetOrCreateShared(st, t) ==
    IF st.pool[t] # 0
    THEN [st |-> [st EXCEPT !.client = st.pool[t]], got |-> st.pool[t]]
    ELSE [st |-> [st EXCEPT !.pool[t] = NewClient(st), !.built = NewClient(st),
                            !.client = NewClient(st)],
          got |-> NewClient(st)]

\* getClient, bearer branch: return the pooled client, or build one and
\* store it under the raw token.
PoolGetOrCreate(st, t) ==
    IF st.pool[t] # 0
    THEN [st |-> st, got |-> st.pool[t]]
    ELSE [st |-> [st EXCEPT !.pool[t] = NewClient(st), !.built = NewClient(st)],
          got |-> NewClient(st)]

\* A pool lookup that forgets to consult the map: a client per call.
StatusPoolAlwaysNew(st, t) ==
    [st |-> [st EXCEPT !.pool[t] = NewClient(st), !.built = NewClient(st)],
     got |-> NewClient(st)]

\* getAuthStatus, bearer branch: the pooled client or a new one, then
\* clientPoolPerToken.set(token, client) in both cases.
StatusPoolGetOrCreate(st, t) ==
    LET had == st.pool[t] # 0
        c == IF had THEN st.pool[t] ELSE NewClient(st)
    IN [st |-> [st EXCEPT !.pool[t] = c,
                          !.built = IF had THEN @ ELSE NewClient(st)],
        got |-> c]

\* An initializeClient that marks the service initialized whatever the
\* store held.
initializeClientSticky(st, f, t) ==
    IF f.kind # "json" THEN [st EXCEPT !.isInitialized = TRUE]
    ELSE LET st1 == [st EXCEPT !.authInfo = Some(f), !.isInitialized = TRUE]
         IN IF f.authenticated /\ f.token # <<>>
                /\ ~(f.expiresAt # NoExpiry /\ f.expiresAt <= t)
            THEN [st1 EXCEPT !.client = NewClient(st), !.built = NewClient(st)]
            ELSE st1

\* initializeClient after fs.readFile has settled with content f at time t.
\* A missing file rejects the read and a corrupt one makes JSON.parse throw:
\* both land in the catch, which only logs.
initializeClientFromFile(st, f, t) ==
    IF f.kind # "json" THEN st
    ELSE LET st1 == [st EXCEPT !.authInfo = Some(f)]
         IN IF f.authenticated /\ f.token # <<>>
            THEN IF f.expiresAt # NoExpiry /\ f.expiresAt <= t
                 THEN st1
                 ELSE [st1 EXCEPT !.client = NewClient(st),
                                  !.built = NewClient(st),
                                  !.isInitialized = TRUE]
            ELSE st1

NoResult == [kind |-> "none"]
NoTool ==
    [name |-> "", authorization |-> Undefined, image |-> FALSE,
     stage |-> "main", mainClient |-> 0,
     userEmails |-> <<>>, topic |-> Undefined, members |-> <<>>,
     posted |-> Undefined]
ClientResult(c) == [kind |-> "client", client |-> c]
\* Texts are sequences of fragments; the remediation phrase is one fragment.
Remediation == "npx @floriscornel/teams-mcp@latest authenticate"
NotAuthenticatedError ==
    [kind |-> "error",
     message |-> <<"Not authenticated. Please run the authentication CLI tool first: ",
                   Remediation>>]
AuthStatus(ok, e) == [kind |-> "status", isAuthenticated |-> ok, expiresAt |-> e]

\* this.authInfo?.expiresAt
ExpiresAtOf(info) == IF info = Undefined THEN NoExpiry ELSE info[1].expiresAt

SetGraphState(st) ==
    /\ clientPoolPerToken' = st.pool
    /\ clientsBuilt' = st.built
    /\ client' = st.client
    /\ isInitialized' = st.isInitialized
    /\ authInfo' = st.authInfo

\* Room for the clients the calls in flight may still build.
CanBuild ==
    clientsBuilt + Cardinality({c \in Callers : gpc[c] = "reading"}) < MaxClients

\* Idle slots are interchangeable: a new call takes the lowest one.
FreeCaller(c) ==
    /\ gpc[c] = "idle"
    /\ \A d \in Callers : d < c => gpc[d] # "idle"

\* getClient's tail: this.client or the Unauthenticated error.
ClientOrThrow(cl) == IF cl = 0 THEN NotAuthenticatedError ELSE ClientResult(cl)

\* async getClient(requestInfo), up to its first suspension.
getClient(c, authorization) ==
    LET token == TokenOf(authorization)
    IN /\ FreeCaller(c)
       /\ CanBuild
       /\ gop' = [gop EXCEPT ![c] = "getClient"]
       /\ gtoken' = [gtoken EXCEPT ![c] = token]
       /\ IF Truthy(token)
          THEN LET r == PoolGetOrCreate(GraphState, token[1])
               IN /\ SetGraphState(r.st)
                  /\ gclient' = [gclient EXCEPT ![c] = r.got]
                  /\ gresult' = [gresult EXCEPT ![c] = ClientResult(r.got)]
                  /\ handed' = handed \cup {<<token[1], r.got>>}
                  /\ gpc' = [gpc EXCEPT ![c] = "done"]
          ELSE /\ SetGraphState(GraphState)
               /\ handed' = handed
               /\ IF isInitialized
                  THEN /\ gclient' = [gclient EXCEPT ![c] = client]
                       /\ gresult' = [gresult EXCEPT ![c] = ClientOrThrow(client)]
                       /\ gpc' = [gpc EXCEPT ![c] = "done"]
                  ELSE /\ UNCHANGED <<gclient, gresult>>
                       /\ gpc' = [gpc EXCEPT ![c] = "reading"]
       /\ UNCHANGED <<authFile, AUTH_TOKEN, now, listener>>
       /\ UNCHANGED httpVars

\* async getAuthStatus(requestInfo), up to its first suspension.
getAuthStatus(c, authorization) ==
    LET token == TokenOf(authorization)
    IN /\ FreeCaller(c)
       /\ CanBuild
       /\ gop' = [gop EXCEPT ![c] = "getAuthStatus"]
       /\ gtoken' = [gtoken EXCEPT ![c] = token]
       /\ IF Truthy(token)
          THEN LET r == StatusPoolGetOrCreate(GraphState, token[1])
               IN /\ SetGraphState(r.st)
                  /\ gclient' = [gclient EXCEPT ![c] = r.got]
                  /\ handed' = handed \cup {<<token[1], r.got>>}
                  /\ gpc' = [gpc EXCEPT ![c] = "me"]
                  /\ UNCHANGED gresult
          ELSE /\ SetGraphState(GraphState)
               /\ handed' = handed
               /\ IF isInitialized
                  THEN IF client = 0
                       THEN /\ gresult' = [gresult EXCEPT ![c] = AuthStatus(FALSE, NoExpiry)]
                            /\ gpc' = [gpc EXCEPT ![c] = "done"]
                            /\ UNCHANGED gclient
                       ELSE /\ gclient' = [gclient EXCEPT ![c] = client]
                            /\ gpc' = [gpc EXCEPT ![c] = "me"]
                            /\ UNCHANGED gresult
                  ELSE /\ UNCHANGED <<gclient, gresult>>
                       /\ gpc' = [gpc EXCEPT ![c] = "reading"]
       /\ UNCHANGED <<authFile, AUTH_TOKEN, now, listener>>
       /\ UNCHANGED httpVars

\* The service's methods called on their own: what the calling handler does
\* with the result is not followed.
getClientCalled(c, authorization) ==
    /\ getClient(c, authorization)
    /\ UNCHANGED gtool

getAuthStatusCalled(c, authorization) ==
    /\ getAuthStatus(c, authorization)
    /\ UNCHANGED gtool

\* fs.readFile settles: the rest of initializeClient, then the caller's
\* code after `await this.initializeClient()`.
readFileSettles(c) ==
    LET st == initializeClientFromFile(GraphState, authFile, now)
    IN /\ gpc[c] = "reading"
       /\ SetGraphState(st)
       /\ IF gop[c] = "getClient"
          THEN /\ gclient' = [gclient EXCEPT ![c] = st.client]
               /\ gresult' = [gresult EXCEPT ![c] = ClientOrThrow(st.client)]
               /\ gpc' = [gpc EXCEPT ![c] = "done"]
          ELSE IF st.client = 0
               THEN /\ gresult' = [gresult EXCEPT ![c] = AuthStatus(FALSE, NoExpiry)]
                    /\ gpc' = [gpc EXCEPT ![c] = "done"]
                    /\ UNCHANGED gclient
               ELSE /\ gclient' = [gclient EXCEPT ![c] = st.client]
                    /\ gpc' = [gpc EXCEPT ![c] = "me"]
                    /\ UNCHANGED gresult
       /\ UNCHANGED <<gop, gtoken, handed, authFile, AUTH_TOKEN, gtool, now, listener>>
       /\ UNCHANGED httpVars

\* client.api("/me").get() settles (ok) or rejects.
meSettles(c, ok) ==
    /\ gpc[c] = "me"
    /\ gresult' = [gresult EXCEPT ![c] =
                     IF ok THEN AuthStatus(TRUE, ExpiresAtOf(authInfo))
                     ELSE AuthStatus(FALSE, NoExpiry)]
    /\ gpc' = [gpc EXCEPT ![c] = "done"]
    /\ UNCHANGED <<clientPoolPerToken, clientsBuilt, client, isInitialized,
                   authInfo, authFile, AUTH_TOKEN, gop, gtoken, gclient, handed, gtool, now, listener>>
    /\ UNCHANGED httpVars

\* The caller has consumed the result; the slot serves the next call.
callReturns(c) ==
    /\ gpc[c] = "done"
    /\ gpc' = [gpc EXCEPT ![c] = "idle"]
    /\ gtoken' = [gtoken EXCEPT ![c] = Undefined]
    /\ gclient' = [gclient EXCEPT ![c] = 0]
    /\ gresult' = [gresult EXCEPT ![c] = NoResult]
    /\ UNCHANGED <<clientPoolPerToken, clientsBuilt, client, isInitialized,
                   authInfo, authFile, AUTH_TOKEN, gop, handed, gtool, now, listener>>
    /\ UNCHANGED httpVars

\* The authenticate command writes the store (another process).
authenticate(e) ==
    /\ authFile' = StoredAuthInfo(TRUE, <<"T">>, e)
    /\ authFile' # authFile
    /\ UNCHANGED <<clientPoolPerToken, clientsBuilt, client, isInitialized,
                   authInfo, AUTH_TOKEN, gpc, gop, gtoken, gclient, gresult,
                   handed, gtool, now, listener>>
    /\ UNCHANGED httpVars

\* The logout command removes the store (another process).
logout ==
    /\ authFile # NoFile
    /\ authFile' = NoFile
    /\ UNCHANGED <<clientPoolPerToken, clientsBuilt, client, isInitialized,
                   authInfo, AUTH_TOKEN, gpc, gop, gtoken, gclient, gresult,
                   handed, gtool, now, listener>>
    /\ UNCHANGED httpVars

\* ------------------------------------------------------------------------
\* Tool handlers (tools/*.ts): the callers of GraphService
\* ------------------------------------------------------------------------
ToolNames == {"auth_status", "list_teams", "list_chats", "search_users_for_mentions"}

\* Handlers that hand extra.requestInfo on to GraphService; list_chats
\* calls getClient() without it.
PassesRequestInfo(tool) ==
    tool \in {"auth_status", "list_teams", "search_users_for_mentions"}

RequestInfoOf(tool, authorization) ==
    IF PassesRequestInfo(tool) THEN authorization ELSE Undefined

\* A handler's run: the tool, the request's Authorization header, whether
\* the call carries an image, how far the handler has come, the client the
\* handler obtained first and, for create_chat, its arguments, the members
\* collected so far and the payload it has posted.
ToolInvocation(tool, authorization) ==
    [name |-> tool, authorization |-> authorization, image |-> FALSE,
     stage |-> "main", mainClient |-> 0,
     userEmails |-> <<>>, topic |-> Undefined, members |-> <<>>,
     posted |-> Undefined]

\* What a remote Graph call settles with: a value, an empty value, a
\* rejection with an Error, a rejection with a value that is no Error.
RemoteOutcomes == {"value", "empty", "error", "thrown"}
RemoteErrorMessage == <<"Graph API error">>
UnknownErrorMessage == <<"Unknown error occurred">>

\* error instanceof Error ? error.message : "Unknown error occurred"
errorMessage(outcome) ==
    IF outcome = "error" THEN RemoteErrorMessage ELSE UnknownErrorMessage

\* error.message of a caught value typed any: undefined for a value that is
\* no Error.
messageOfAny(outcome) ==
    IF outcome = "error" THEN RemoteErrorMessage ELSE <<"undefined">>

TextResult(text) == [kind |-> "text", text |-> text]

\* The cross mark and the check mark the texts begin with.
FailureIndicator == "(cross mark) "
SuccessIndicator == "(check mark) "

\* `<cross mark> Error: ${errorMessage}`
ErrorText(message) == TextResult(<<FailureIndicator, "Error: ">> \o message)

\* send_channel_message: `<cross mark> Failed to send message: ${error.message}`
SendFailedText(message) ==
    TextResult(<<FailureIndicator, "Failed to send message: ">> \o message)

\* send_channel_message when uploadImageAsHostedContent returned null.
UploadFailedText ==
    TextResult(<<FailureIndicator, "Failed to upload image attachment">>)

MessageSentText == TextResult(<<SuccessIndicator, "Message sent successfully.">>)

\* auth_status: the text for status.isAuthenticated true / false.
AuthStatusText(status) ==
    IF status.isAuthenticated
    THEN TextResult(<<SuccessIndicator, "Authenticated as ">>)
    ELSE TextResult(<<FailureIndicator, "Not authenticated. Please run: ", Remediation>>)

\* A handler's result after its remote call has settled.
RemoteText(tool, outcome) ==
    IF tool = "search_users_for_mentions"
    THEN \* searchUsers catches the failure and returns []
         IF outcome = "value" THEN TextResult(<<"users">>)
         ELSE TextResult(<<"No users found matching">>)
    ELSE IF tool = "send_channel_message"
    THEN \* result.id of the POST's answer
         IF outcome = "value" THEN MessageSentText
         ELSE IF outcome = "empty"
         THEN SendFailedText(<<"Cannot read properties of null">>)
         ELSE SendFailedText(messageOfAny(outcome))
    ELSE IF outcome \in {"error", "thrown"} THEN ErrorText(errorMessage(outcome))
    ELSE IF outcome = "empty"
         THEN TextResult(<<IF tool = "list_teams" THEN "No teams found."
                           ELSE "No chats found.">>)
    ELSE TextResult(<<"JSON">>)

\* A text contains a phrase.
Contains(text, phrase) == \E i \in DOMAIN text : text[i] = phrase

\* The MCP server calls a tool handler, which calls GraphService at once.
toolCalled(c, tool, authorization) ==
    /\ gtool' = [gtool EXCEPT ![c] = ToolInvocation(tool, authorization)]
    /\ IF tool = "auth_status"
       THEN getAuthStatus(c, RequestInfoOf(tool, authorization))
       ELSE getClient(c, RequestInfoOf(tool, authorization))

\* send_channel_message, with or without image data.
sendChannelMessageCalled(c, authorization, image) ==
    /\ gtool' = [gtool EXCEPT ![c] =
                   [ToolInvocation("send_channel_message", authorization)
                      EXCEPT !.image = image]]
    /\ getClient(c, authorization)

\* The handler's text for a getClient that threw.
GetClientFailedText(tool, message) ==
    IF tool = "search_users_for_mentions" THEN RemoteText(tool, "error")
    ELSE IF tool = "send_channel_message" THEN SendFailedText(message)
    ELSE ErrorText(message)

\* uploadImageAsHostedContent calls graphService.getClient() for itself,
\* without requestInfo: getClient up to its first suspension, for a caller
\* that is in the middle of its handler.
helperGetClient(c) ==
    /\ CanBuild
    /\ gtool' = [gtool EXCEPT ![c].stage = "upload",
                              ![c].mainClient = gresult[c].client]
    /\ gtoken' = [gtoken EXCEPT ![c] = Undefined]
    /\ IF isInitialized
       THEN /\ gclient' = [gclient EXCEPT ![c] = client]
            /\ gresult' = [gresult EXCEPT ![c] = ClientOrThrow(client)]
            /\ gpc' = [gpc EXCEPT ![c] = "done"]
       ELSE /\ UNCHANGED <<gclient, gresult>>
            /\ gpc' = [gpc EXCEPT ![c] = "reading"]

\* The handler's code after its await of getClient / getAuthStatus /
\* searchUsers: the failure is turned into a text, or the remote call of
\* the tool is issued.
toolContinues(c) ==
    LET tool == gtool[c].name
        r == gresult[c]
    IN /\ gpc[c] = "done"
       /\ gtool[c] # NoTool
       /\ IF r.kind = "status"
          THEN /\ gresult' = [gresult EXCEPT ![c] = AuthStatusText(r)]
               /\ gpc' = [gpc EXCEPT ![c] = "answered"]
               /\ UNCHANGED <<gtoken, gclient, gtool>>
          ELSE IF r.kind = "error"
          THEN /\ gresult' = [gresult EXCEPT ![c] =
                                IF gtool[c].stage = "upload" THEN UploadFailedText
                                ELSE GetClientFailedText(tool, r.message)]
               /\ gpc' = [gpc EXCEPT ![c] = "answered"]
               /\ UNCHANGED <<gtoken, gclient, gtool>>
          ELSE IF gtool[c].image /\ gtool[c].stage = "main"
          THEN helperGetClient(c)
          ELSE /\ gpc' = [gpc EXCEPT ![c] = "remote"]
               /\ UNCHANGED <<gresult, gtoken, gclient, gtool>>
       /\ UNCHANGED <<clientPoolPerToken, clientsBuilt, client, isInitialized,
                      authInfo, authFile, AUTH_TOKEN, gop, handed, now, listener>>
       /\ UNCHANGED httpVars

\* client.api(...).get() of the tool settles.
remoteSettles(c, outcome) ==
    /\ gpc[c] = "remote"
    /\ gtool[c].name # "create_chat"
    /\ IF gtool[c].stage = "upload"
       THEN \* the hostedContents POST of uploadImageAsHostedContent
            IF outcome = "value"
            THEN \* the handler goes on to post the message with its client
                 /\ gtool' = [gtool EXCEPT ![c].stage = "post"]
                 /\ gclient' = [gclient EXCEPT ![c] = gtool[c].mainClient]
                 /\ UNCHANGED <<gresult, gpc>>
            ELSE /\ gresult' = [gresult EXCEPT ![c] = UploadFailedText]
                 /\ gpc' = [gpc EXCEPT ![c] = "answered"]
                 /\ UNCHANGED <<gclient, gtool>>
       ELSE /\ gresult' = [gresult EXCEPT ![c] = RemoteText(gtool[c].name, outcome)]
            /\ gpc' = [gpc EXCEPT ![c] = "answered"]
            /\ UNCHANGED <<gclient, gtool>>
    /\ UNCHANGED <<clientPoolPerToken, clientsBuilt, client, isInitialized,
                   authInfo, authFile, AUTH_TOKEN, gop, gtoken, handed, now, listener>>
    /\ UNCHANGED httpVars

\* ------------------------------------------------------------------------
\* create_chat (tools/chats.ts)
\* ------------------------------------------------------------------------
Emails == {"a@x", "b@x"}

\* The id of the user a lookup answers with; undefined when the answer is
\* empty (user?.id).
UserId(who, outcome) == IF outcome = "value" THEN Some(<<"id", who>>) ELSE Undefined

\* One entry of the members array.
ConversationMember(id, role) ==
    [type |-> "#microsoft.graph.aadUserConversationMember",
     user |-> id, roles |-> <<role>>]

\* A chatType that is "group" whatever the number of emails.
chatTypeAlwaysGroup(userEmails) == "group"

\* userEmails.length === 1 ? "oneOnOne" : "group"
chatType(userEmails) == IF Len(userEmails) = 1 THEN "oneOnOne" ELSE "group"

\* chatData, with chatData.topic set if (topic && userEmails.length > 1).
CreateChatPayload(userEmails, topic, members) ==
    [chatType |-> chatType(userEmails),
     members |-> members,
     topic |-> IF Truthy(topic) /\ Len(userEmails) > 1 THEN topic ELSE Undefined]

ChatCreatedText == TextResult(<<SuccessIndicator, "Chat created successfully.">>)

\* The handler after a remote call that did not fail: the member is
\* added and the next lookup, or the POST of the payload, is issued; after
\* the POST the success text is returned.
createChatAdvance(inv, outcome) ==
    IF inv.stage = "post" THEN [inv |-> inv, result |-> ChatCreatedText]
    ELSE LET k == Len(inv.members)
             members == IF k = 0
                        THEN <<ConversationMember(UserId("me", outcome), "owner")>>
                        ELSE Append(inv.members,
                                    ConversationMember(UserId(inv.userEmails[k], outcome),
                                                       "member"))
         IN IF Len(members) = Len(inv.userEmails) + 1
            THEN [inv |-> [inv EXCEPT
                             !.members = members,
                             !.stage = "post",
                             !.posted = Some(CreateChatPayload(inv.userEmails,
                                                               inv.topic, members))],
                  result |-> NoResult]
            ELSE [inv |-> [inv EXCEPT !.members = members], result |-> NoResult]

CreateChatFailed(outcome) == outcome \in {"error", "thrown"}

\* A handler that goes on without the user when a lookup fails.
createChatStepLenient(inv, outcome) ==
    IF CreateChatFailed(outcome) /\ inv.stage = "post"
    THEN [inv |-> inv, result |-> ErrorText(errorMessage(outcome))]
    ELSE createChatAdvance(inv, IF CreateChatFailed(outcome) THEN "empty" ELSE outcome)

\* One remote call of the handler settles: a failure leaves the try block
\* for the catch.
createChatStep(inv, outcome) ==
    IF CreateChatFailed(outcome)
    THEN [inv |-> inv, result |-> ErrorText(errorMessage(outcome))]
    ELSE createChatAdvance(inv, outcome)

\* create_chat is called: graphService.getClient(), without requestInfo.
createChatCalled(c, authorization, userEmails, topic) ==
    /\ gtool' = [gtool EXCEPT ![c] =
                   [ToolInvocation("create_chat", authorization)
                      EXCEPT !.userEmails = userEmails, !.topic = topic]]
    /\ getClient(c, Undefined)

\* One create_chat call at a time: the handler's data are local to the call.
createChatAlone(c, authorization, userEmails, topic) ==
    /\ \A d \in Callers : gpc[d] = "idle"
    /\ createChatCalled(c, authorization, userEmails, topic)

\* client.api("/me").get(), client.api(`/users/${email}`).get() or
\* client.api("/chats").post(chatData) settles.
createChatSettles(c, outcome) ==
    LET next == createChatStep(gtool[c], outcome)
    IN /\ gpc[c] = "remote"
       /\ gtool[c].name = "create_chat"
       /\ gtool' = [gtool EXCEPT ![c] = next.inv]
       /\ IF next.result = NoResult
          THEN UNCHANGED <<gpc, gresult>>
          ELSE /\ gresult' = [gresult EXCEPT ![c] = next.result]
               /\ gpc' = [gpc EXCEPT ![c] = "answered"]
       /\ UNCHANGED <<clientPoolPerToken, clientsBuilt, client, isInitialized,
                      authInfo, authFile, AUTH_TOKEN, gop, gtoken, gclient,
                      handed, now, listener>>
       /\ UNCHANGED httpVars

\* The lists of at most n emails.
RECURSIVE EmailListsUpTo(_)
EmailListsUpTo(n) ==
    IF n = 0 THEN {<<>>}
    ELSE LET shorter == EmailListsUpTo(n - 1)
         IN shorter \cup {Append(l, e) : l \in shorter, e \in Emails}

Topics == {Undefined, Some(<<>>), Some(<<"t">>)}

\* The handler's result has been sent; the slot serves the next call.
toolReturns(c) ==
    /\ gpc[c] = "answered"
    /\ gpc' = [gpc EXCEPT ![c] = "idle"]
    /\ gtoken' = [gtoken EXCEPT ![c] = Undefined]
    /\ gclient' = [gclient EXCEPT ![c] = 0]
    /\ gresult' = [gresult EXCEPT ![c] = NoResult]
    /\ gtool' = [gtool EXCEPT ![c] = NoTool]
    /\ UNCHANGED <<clientPoolPerToken, clientsBuilt, client, isInitialized,
                   authInfo, authFile, AUTH_TOKEN, gop, handed, now, listener>>
    /\ UNCHANGED httpVars

\* ------------------------------------------------------------------------
\* TransportCache: an LRUCache {max, ttl, dispose, updateAgeOnGet: false}
\* ------------------------------------------------------------------------
max == 100               \* LRUCache max
ttl == 30000             \* LRUCache ttl (ms)

\* What the cache operations read and write, as one record.
CacheState == [cache |-> cache, disposed |-> disposed, closing |-> closing]

Keys(list) == {list[i].id : i \in DOMAIN list}

\* The dispose callback, up to its await: it logs and calls
\* value.transport.close(), whose promise is then pending.  The log keeps
\* whether the cache still held the entry when close() was called.
disposeCall(list, v, reason) ==
    [id |-> v.id, reason |-> reason, cached |-> v.id \in Keys(list)]

dispose(cs, v, reason) ==
    [cs EXCEPT !.disposed = Append(@, disposeCall(cs.cache, v, reason)),
               !.closing = Append(@, v.id)]

\* An eviction that takes the most recently used entry.
evictNewest(cs) ==
    LET last == cs.cache[Len(cs.cache)]
    IN [dispose(cs, last, "evict") EXCEPT
          !.cache = SubSeq(cs.cache, 1, Len(cs.cache) - 1)]

\* LRUCache eviction of the least recently used entry: the cache calls
\* dispose on it and then drops it from its list.
evict(cs) ==
    LET head == Head(cs.cache)
    IN [dispose(cs, head, "evict") EXCEPT !.cache = Tail(cs.cache)]

\* A cache that never evicts.
setUnbounded(cs, v) == [cs EXCEPT !.cache = Append(@, v)]

\* this.cache.set(id, value) for a key the cache does not hold: at max
\* entries the least recently used one is evicted first.
set(cs, v) ==
    LET room == IF Len(cs.cache) = max THEN evict(cs) ELSE cs
    IN [room EXCEPT !.cache = Append(@, v)]

\* this.cache.clear(): dispose runs on every entry, most recent first,
\* and then the list is emptied.
disposeAll(cs) ==
    LET n == Len(cs.cache)
        rindexes == [i \in 1..n |-> n + 1 - i]
    IN [cs EXCEPT
          !.disposed = @ \o [i \in 1..n |->
                               disposeCall(cs.cache, cs.cache[rindexes[i]], "delete")],
          !.closing = @ \o [i \in 1..n |-> cs.cache[rindexes[i]].id]]

\* A clear that drops the entries without disposing of them.
clearNoDispose(cs) == [cs EXCEPT !.cache = <<>>]

clear(cs) == [disposeAll(cs) EXCEPT !.cache = <<>>]

SetCacheState(cs) ==
    /\ cache' = cs.cache
    /\ disposed' = cs.disposed
    /\ closing' = cs.closing

\* How often close() was called on transport id.
CloseCalls(log, id) == Cardinality({i \in DOMAIN log : log[i].id = id})

\* A dispose callback without its try/catch: the rejection is unhandled.
disposeRejectedUncaught == [logged |-> FALSE, unhandled |-> TRUE]

\* The dispose callback after its await: a rejected close() is caught
\* and logged.
disposeRejected == [logged |-> TRUE, unhandled |-> FALSE]

\* A pending close() promise settles: fulfilled (ok) or rejected.
closeSettles(ok) ==
    /\ ~exited
    /\ closing # <<>>
    /\ closing' = Tail(closing)
    /\ closeErrorLogged' = (closeErrorLogged \/ (~ok /\ disposeRejected.logged))
    /\ exited' = (~ok /\ disposeRejected.unhandled)
    /\ UNCHANGED <<cache, transportsBuilt, acquireCalls, disposed, destroyed,
                   req, now, listener>>
    /\ UNCHANGED graphVars

\* TransportCache.destroy (HttpTransportHandler.destroy awaits it).
destroy ==
    /\ ~exited
    /\ ~destroyed
    /\ SetCacheState(clear(CacheState))
    /\ destroyed' = TRUE
    /\ UNCHANGED <<transportsBuilt, acquireCalls, closeErrorLogged, req,
                   exited, now, listener>>
    /\ UNCHANGED graphVars

\* ------------------------------------------------------------------------
\* HttpTransportHandler.connect: the request listener
\* ------------------------------------------------------------------------
requestTimeout == 25000  \* setTimeout delay (ms)

TimeoutResponse ==
    [status |-> 408, code |-> 0 - 32000, body |-> {"jsonrpc", "error", "id"}]
InternalErrorResponse ==
    [status |-> 500, code |-> 0 - 32603, body |-> {"jsonrpc", "error", "id"}]
HealthResponse ==
    [status |-> 200, code |-> 0,
     body |-> {"status", "server", "version", "timestamp"}]
\* Whatever the transport library answers with.
TransportResponse == [status |-> 200, code |-> 0, body |-> {"transport"}]

Methods == {"GET", "POST"}
Urls == {"/health", "/mcp"}
SessionHeaders == {Undefined, Some([src |-> "header", n |-> 1])}
randomUUID(r) == [src |-> "uuid", n |-> r]

IdleRequest ==
    [pc |-> "idle", method |-> "", url |-> "",
     sessionId |-> Undefined, context |-> Undefined,
     timeout |-> "none", deadline |-> 0,
     headersSent |-> FALSE, writableEnded |-> FALSE, responses |-> <<>>,
     headersSentError |-> FALSE, cachedTransport |-> 0, dispatched |-> FALSE]

\* Idle slots are interchangeable: a new request takes the lowest one.
FreeSlot(r) ==
    /\ req[r].pc = "idle"
    /\ \A r2 \in Reqs : r2 < r => req[r2].pc # "idle"

\* A clearTimeout that leaves the timer armed.
clearTimeoutNoop(q) == q

\* clearTimeout(timeout): disarms a timer that has not fired.
clearTimeout(q) ==
    IF q.timeout = "armed"
    THEN [q EXCEPT !.timeout = "cleared", !.deadline = 0]
    ELSE q

\* res.writeHead: Node throws ERR_HTTP_HEADERS_SENT once headers are out.
writeHead(q, response) ==
    IF q.headersSent
    THEN [q EXCEPT !.headersSentError = TRUE]
    ELSE [q EXCEPT !.headersSent = TRUE, !.responses = Append(@, response)]

\* The wrapped res.end: clears the timer, then ends the response.
end(q) ==
    IF q.headersSentError THEN q
    ELSE [clearTimeout(q) EXCEPT !.headersSent = TRUE, !.writableEnded = TRUE]

\* The listener's prelude: the 25 s timer, the res.end wrapper, the
\* close/error listeners.
received(q, m, u, t) ==
    [q EXCEPT !.method = m, !.url = u,
              !.timeout = "armed", !.deadline = t + requestTimeout]

\* A timer callback that writes without looking at res.headersSent.
timeoutCallbackUnguarded(q) == end(writeHead(q, TimeoutResponse))

\* The timer callback.
timeoutCallback(q) ==
    IF ~q.headersSent THEN end(writeHead(q, TimeoutResponse)) ELSE q

\* A catch block that answers without looking at res.headersSent.
catchBlockUnguarded(q) ==
    end(writeHead(clearTimeout(q), InternalErrorResponse))

\* The catch block of the dispatch: the timer is cleared, the error is
\* written to the console, and 500 is answered unless the head is out.
catchBlock(q) ==
    LET q1 == clearTimeout(q)
    IN IF ~q1.headersSent THEN end(writeHead(q1, InternalErrorResponse)) ELSE q1

\* A health check that looks for another path.
IsHealthz(m, u) == m = "GET" /\ u = "/healthz"

\* req.method === 'GET' && req.url === '/health'
IsHealth(m, u) == m = "GET" /\ u = "/health"

\* The health check: answered at once, before any dispatch.
health(r, m, u) ==
    /\ ~exited
    /\ FreeSlot(r)
    /\ IsHealth(m, u)
    /\ req' = [req EXCEPT ![r] =
                 [end(writeHead(received(@, m, u, now), HealthResponse))
                    EXCEPT !.pc = "returned"]]
    /\ UNCHANGED <<cacheVars, exited, now, listener>>
    /\ UNCHANGED graphVars

\* New requests arrive while the service is up and few closes are pending.
Accepting ==
    /\ ~exited
    /\ ~destroyed
    /\ acquireCalls < MaxAcquires
    /\ Len(closing) <= MaxPendingCloses

\* Any other request: the session id is derived, getTransport builds the
\* transport and its server and suspends in server.connect.
dispatch(r, m, u, sid) ==
    /\ Accepting
    /\ FreeSlot(r)
    /\ ~IsHealth(m, u)
    /\ acquireCalls' = acquireCalls + 1
    /\ req' = [req EXCEPT ![r] =
                 [received(@, m, u, now) EXCEPT
                    !.pc = "connecting",
                    !.sessionId = IF sid # Undefined THEN sid
                                  ELSE Some(randomUUID(r))]]
    /\ UNCHANGED <<cache, transportsBuilt, disposed, closing, closeErrorLogged,
                   destroyed, exited, now, listener>>
    /\ UNCHANGED graphVars

\* getTransport throws while it builds the transport, the server or its
\* tools: the dispatch lands in its catch block.
dispatchThrows(r, m, u, sid) ==
    /\ Accepting
    /\ FreeSlot(r)
    /\ ~IsHealth(m, u)
    /\ acquireCalls' = acquireCalls + 1
    /\ req' = [req EXCEPT ![r] =
                 [catchBlock([received(@, m, u, now) EXCEPT
                                !.sessionId = IF sid # Undefined THEN sid
                                              ELSE Some(randomUUID(r))])
                    EXCEPT !.pc = "returned"]]
    /\ UNCHANGED <<cache, transportsBuilt, disposed, closing, closeErrorLogged,
                   destroyed, exited, now, listener>>
    /\ UNCHANGED graphVars

\* A getTransport that hands out the entry stored last.
lookupCachedTransport(n, t) == [id |-> IF n = 0 THEN 1 ELSE n, start |-> t]

\* The CachedTransport getTransport has built: {transport, id: randomUUID()}.
\* The ids are opaque and unused until the entry is stored, so the model
\* numbers the transports in the order in which they are stored.
newCachedTransport(n, t) == [id |-> n + 1, start |-> t]

\* A getTransport that stores the entry before it awaits server.connect.
connectRejectedStored(cs, created) == set(cs, created)

\* The cache after server.connect has rejected: cache.set comes after the
\* await, so the CachedTransport built for the call is dropped.
connectRejected(cs, created) == cs

\* server.connect settles.  Fulfilled: the entry is stored, getTransport
\* returns and transport.handleRequest is called inside
\* sessionStorage.run({sessionId}).  Rejected: the catch block runs.
connectSettles(r, ok) ==
    /\ ~exited
    /\ req[r].pc = "connecting"
    /\ IF ok
       THEN LET created == newCachedTransport(transportsBuilt, now)
            IN /\ SetCacheState(set(CacheState, created))
               /\ transportsBuilt' = created.id
               /\ req' = [req EXCEPT ![r].pc = "handling",
                                     ![r].context = req[r].sessionId,
                                     ![r].cachedTransport = created.id,
                                     ![r].dispatched = TRUE]
       ELSE LET created == newCachedTransport(transportsBuilt, now)
                 cs == connectRejected(CacheState, created)
            IN /\ SetCacheState(cs)
               /\ transportsBuilt' = IF cs = CacheState THEN transportsBuilt
                                     ELSE created.id
               /\ req' = [req EXCEPT ![r] = [catchBlock(@) EXCEPT !.pc = "returned"]]
    /\ UNCHANGED <<acquireCalls, closeErrorLogged, destroyed, exited, now, listener>>
    /\ UNCHANGED graphVars

\* The transport starts a response (an event stream) and keeps it open.
transportWritesHead(r) ==
    /\ ~exited
    /\ req[r].dispatched
    /\ ~req[r].headersSent
    /\ req' = [req EXCEPT ![r] = writeHead(@, TransportResponse)]
    /\ UNCHANGED <<cacheVars, exited, now, listener>>
    /\ UNCHANGED graphVars

\* The transport ends the response, writing it first if it has not begun.
transportEnds(r) ==
    /\ ~exited
    /\ req[r].dispatched
    /\ ~req[r].writableEnded
    /\ req' = [req EXCEPT ![r] =
                 IF @.headersSent THEN end(@)
                 ELSE end(writeHead(@, TransportResponse))]
    /\ UNCHANGED <<cacheVars, exited, now, listener>>
    /\ UNCHANGED graphVars

\* transport.handleRequest resolves.
handleRequestReturns(r) ==
    /\ ~exited
    /\ req[r].pc = "handling"
    /\ req' = [req EXCEPT ![r].pc = "returned", ![r].context = Undefined]
    /\ UNCHANGED <<cacheVars, exited, now, listener>>
    /\ UNCHANGED graphVars

\* transport.handleRequest rejects: the catch block runs.
handleRequestThrows(r) ==
    /\ ~exited
    /\ req[r].pc = "handling"
    /\ req' = [req EXCEPT ![r] =
                 [catchBlock(@) EXCEPT !.pc = "returned", !.context = Undefined]]
    /\ UNCHANGED <<cacheVars, exited, now, listener>>
    /\ UNCHANGED graphVars

\* The 25 s timer fires.  An exception in a timer callback is uncaught:
\* the process-level handler exits.
timeoutFires(r) ==
    LET q == timeoutCallback([req[r] EXCEPT !.timeout = "fired", !.deadline = 0])
    IN /\ ~exited
       /\ req[r].timeout = "armed"
       /\ now >= req[r].deadline
       /\ req' = [req EXCEPT ![r] = q]
       /\ exited' = q.headersSentError
       /\ UNCHANGED <<cacheVars, now, listener>>
       /\ UNCHANGED graphVars

\* req.on('close')
reqClose(r) ==
    /\ ~exited
    /\ req[r].pc # "idle"
    /\ req' = [req EXCEPT ![r] = clearTimeout(@)]
    /\ UNCHANGED <<cacheVars, exited, now, listener>>
    /\ UNCHANGED graphVars

\* req.on('error'); Node emits 'close' after it.
reqError(r) ==
    /\ ~exited
    /\ req[r].pc # "idle"
    /\ req' = [req EXCEPT ![r] = clearTimeout(@)]
    /\ UNCHANGED <<cacheVars, exited, now, listener>>
    /\ UNCHANGED graphVars

\* The request is over; its slot serves the next request.
forget(r) ==
    /\ ~exited
    /\ req[r].pc = "returned"
    /\ req' = [req EXCEPT ![r] = IdleRequest]
    /\ UNCHANGED <<cacheVars, exited, now, listener>>
    /\ UNCHANGED graphVars

\* ------------------------------------------------------------------------
\* Time
\* ------------------------------------------------------------------------
tick ==
    /\ ~exited
    /\ now + TickMs <= MaxTime
    /\ now' = now + TickMs
    /\ UNCHANGED listener
    /\ UNCHANGED httpVars
    /\ UNCHANGED graphVars

\* ------------------------------------------------------------------------
\* GraphService with an injected token (process.env.AUTH_TOKEN)
\* ------------------------------------------------------------------------

(***************************************************************************)
(* A token is a sequence of symbols: "." and blocks of base64 text. Each   *)
(* block stands for the base64 encoding of one document; "-" is a          *)
(* character of the base64url alphabet, which atob does not accept.        *)
(***************************************************************************)
GraphAudience == "https://graph.microsoft.com"
OtherAudience == "api://other"
TokenSymbols == {".", "h", "G", "L", "O", "n", "-"}
Base64Blocks == {"h", "G", "L", "O", "n"}

\* The document a base64 block decodes to:
\*   h  {"alg":"RS256"}                 G  {"aud":"https://graph.microsoft.com"}
\*   L  {"aud":["api://other","https://graph.microsoft.com"]}
\*   O  {"aud":"api://other"}           n  null
Document(block) ==
    CASE block = "h" -> [json |-> "object", aud |-> <<>>]
      [] block = "G" -> [json |-> "object", aud |-> <<"string", GraphAudience>>]
      [] block = "L" -> [json |-> "object",
                         aud |-> <<"array", OtherAudience, GraphAudience>>]
      [] block = "O" -> [json |-> "object", aud |-> <<"string", OtherAudience>>]
      [] block = "n" -> [json |-> "null", aud |-> <<>>]

Throws == [threw |-> TRUE]
Returns(v) == [threw |-> FALSE, value |-> v]

\* atob(segment): the decoded text (the list of the blocks' documents), or
\* an InvalidCharacterError when a character is outside the alphabet.
atob(segment) ==
    IF \E i \in 1..Len(segment) : segment[i] \notin Base64Blocks
    THEN Throws
    ELSE Returns([i \in 1..Len(segment) |-> Document(segment[i])])

\* JSON.parse(text): the value of a text that is exactly one document; the
\* empty text and two documents side by side are a SyntaxError.
JSONparse(text) == IF Len(text) = 1 THEN Returns(text[1]) ELSE Throws

\* The value undefined as an element of a list of strings.
JsUndefined == "undefined"

\* [payload.aud] as far as includes(<string>) can tell: an element that is
\* not a string equals no string.
Single(aud) ==
    IF aud # <<>> /\ Head(aud) = "string" THEN <<aud[2]>> ELSE <<JsUndefined>>

\* Array.isArray(payload.aud) ? payload.aud : [payload.aud]
Audiences(payload) ==
    IF payload.aud # <<>> /\ Head(payload.aud) = "array"
    THEN Tail(payload.aud)
    ELSE Single(payload.aud)

\* audiences.includes("https://graph.microsoft.com")
IncludesGraph(audiences) ==
    \E i \in 1..Len(audiences) : audiences[i] = GraphAudience

\* validateToken with the array test left out: audiences = [payload.aud].
validateTokenStringOnly(token) ==
    LET tokenSplits == split(token, ".")
    IN IF Len(tokenSplits) # 3 THEN Undefined
       ELSE LET text == atob(tokenSplits[2])
            IN IF text.threw THEN Undefined
               ELSE LET payload == JSONparse(text.value)
                    IN IF payload.threw THEN Undefined
                       ELSE IF payload.value.json = "null" THEN Undefined
                       ELSE IF ~IncludesGraph(Single(payload.value.aud)) THEN Undefined
                       ELSE Some(token)

\* validateToken(token): the token, or undefined. Reading .aud of null is a
\* TypeError, caught like the decoding errors.
validateToken(token) ==
    LET tokenSplits == split(token, ".")
    IN IF Len(tokenSplits) # 3 THEN Undefined
       ELSE LET text == atob(tokenSplits[2])
            IN IF text.threw THEN Undefined
               ELSE LET payload == JSONparse(text.value)
                    IN IF payload.threw THEN Undefined
                       ELSE IF payload.value.json = "null" THEN Undefined
                       ELSE IF ~IncludesGraph(Audiences(payload.value)) THEN Undefined
                       ELSE Some(token)

\* { authenticated: false, timestamp, token: "" }
NotAuthenticatedInfo == StoredAuthInfo(FALSE, <<>>, NoExpiry)

\* getAuthInfo(): from AUTH_TOKEN when it is set and not empty, from the
\* store otherwise; a read or parse failure is caught.
getAuthInfo(env, f) ==
    IF Truthy(env)
    THEN IF Truthy(validateToken(env[1]))
         THEN StoredAuthInfo(TRUE, env[1], NoExpiry)
         ELSE NotAuthenticatedInfo
    ELSE IF f.kind = "json" THEN f ELSE NotAuthenticatedInfo

\* `await this.getAuthInfo()` settles: the rest of initializeClient, then
\* the caller's code after `await this.initializeClient()`.
getAuthInfoSettles(c) ==
    LET st == initializeClientFromFile(GraphState,
                                       getAuthInfo(AUTH_TOKEN, authFile), now)
    IN /\ gpc[c] = "reading"
       /\ SetGraphState(st)
       /\ IF gop[c] = "getClient"
          THEN /\ gclient' = [gclient EXCEPT ![c] = st.client]
               /\ gresult' = [gresult EXCEPT ![c] = ClientOrThrow(st.client)]
               /\ gpc' = [gpc EXCEPT ![c] = "done"]
          ELSE IF st.client = 0
               THEN /\ gresult' = [gresult EXCEPT ![c] = AuthStatus(FALSE, NoExpiry)]
                    /\ gpc' = [gpc EXCEPT ![c] = "done"]
                    /\ UNCHANGED gclient
               ELSE /\ gclient' = [gclient EXCEPT ![c] = st.client]
                    /\ gpc' = [gpc EXCEPT ![c] = "me"]
                    /\ UNCHANGED gresult
       /\ UNCHANGED <<gop, gtoken, handed, authFile, AUTH_TOKEN, gtool, now, listener>>
       /\ UNCHANGED httpVars

TokenResult(t) == [kind |-> "token", value |-> t]

\* graphService.validateToken(process.env.AUTH_TOKEN), a synchronous call.
validateTokenCalled(c) ==
    /\ FreeCaller(c)
    /\ AUTH_TOKEN # Undefined
    /\ gop' = [gop EXCEPT ![c] = "validateToken"]
    /\ gresult' = [gresult EXCEPT ![c] = TokenResult(validateToken(AUTH_TOKEN[1]))]
    /\ gpc' = [gpc EXCEPT ![c] = "done"]
    /\ UNCHANGED <<clientPoolPerToken, clientsBuilt, client, isInitialized,
                   authInfo, authFile, AUTH_TOKEN, gtoken, gclient, handed,
                   gtool, now, listener>>
    /\ UNCHANGED httpVars

\* The strings of at most n symbols.
RECURSIVE StringsUpTo(_)
StringsUpTo(n) ==
    IF n = 0 THEN {<<>>}
    ELSE LET shorter == StringsUpTo(n - 1)
         IN shorter \cup {Append(s, x) : s \in shorter, x \in TokenSymbols}

ValidToken == <<"h", ".", "G", ".", "h">>
WrongAudienceToken == <<"h", ".", "O", ".", "h">>
\* The values AUTH_TOKEN has in the specifications of the client pool.
EnvTokens ==
    {Undefined} \cup {Some(t) : t \in StringsUpTo(MaxTokenLen)}

\* ------------------------------------------------------------------------
\* Server start: the port of the HTTP listener
\* ------------------------------------------------------------------------
NaN == 0 - 1
PortChars == {"0", "3", "8", "x"}
IsDigit(ch) == ch \in {"0", "3", "8"}
DigitValue(ch) == CASE ch = "0" -> 0 [] ch = "3" -> 3 [] ch = "8" -> 8

\* parseInt(s, 10): the value of the longest prefix of digits, NaN if the
\* string does not start with a digit.
RECURSIVE ParseDigits(_, _, _)
ParseDigits(s, i, acc) ==
    IF i > Len(s) \/ ~IsDigit(s[i]) THEN acc
    ELSE ParseDigits(s, i + 1, 10 * acc + DigitValue(s[i]))

parseInt(s) == IF s = <<>> \/ ~IsDigit(s[1]) THEN NaN ELSE ParseDigits(s, 1, 0)

\* JavaScript truthiness of an optional number.
TruthyNumber(n) == n # Undefined /\ n[1] # 0 /\ n[1] # NaN

\* parseArgs: the value after --port, checked against 1..65535;
\* options.port, or "exit" after process.exit(1).
parseArgs(portArg) ==
    IF portArg = Undefined THEN [exit |-> FALSE, port |-> Undefined]
    ELSE LET portValue == parseInt(portArg[1])
         IN IF portValue = NaN \/ portValue < 1 \/ portValue > 65535
            THEN [exit |-> TRUE, port |-> Undefined]
            ELSE [exit |-> FALSE, port |-> Some(portValue)]

\* startMcpServer with the --port option read before PORT.
configOptionsFirst(env, optionsPort) ==
    LET port == IF optionsPort # Undefined THEN optionsPort
                ELSE IF Truthy(env) THEN Some(parseInt(env[1])) ELSE Undefined
    IN IF TruthyNumber(port) THEN [port |-> port] ELSE [port |-> Undefined]

\* startMcpServer: port = PORT ? parseInt(PORT, 10) : options.port and
\* config = port ? { port } : {}.
config(env, optionsPort) ==
    LET port == IF Truthy(env) THEN Some(parseInt(env[1])) ELSE optionsPort
    IN IF TruthyNumber(port) THEN [port |-> port] ELSE [port |-> Undefined]

DefaultPort == <<"3", "0", "0", "0">>

\* HttpTransportHandler.connect:
\* this.config.port ?? parseInt(process.env.PORT || '3000', 10)
connectPort(cfg, env) ==
    IF cfg.port # Undefined THEN cfg.port[1]
    ELSE parseInt(IF Truthy(env) THEN env[1] ELSE DefaultPort)

NotStarted(env, portArg) ==
    [PORT |-> env, portArg |-> portArg, state |-> "starting", port |-> Undefined]

\* main() with --transport http: parseArgs, startMcpServer and
\* httpServer.listen(port, host), which throws for a port that is not in
\* 0..65535.
startMcpServer ==
    /\ listener.state = "starting"
    /\ LET options == parseArgs(listener.portArg)
           port == connectPort(config(listener.PORT, options.port), listener.PORT)
       IN listener' =
             IF options.exit THEN [listener EXCEPT !.state = "exited"]
             ELSE IF port = NaN \/ port > 65535
                  THEN [listener EXCEPT !.state = "failed"]
                  ELSE [listener EXCEPT !.state = "listening", !.port = Some(port)]
    /\ UNCHANGED <<graphVars, httpVars, now>>

\* The strings of at most n characters of a PORT value.
RECURSIVE PortStringsUpTo(_)
PortStringsUpTo(n) ==
    IF n = 0 THEN {<<>>}
    ELSE LET shorter == PortStringsUpTo(n - 1)
         IN shorter \cup {Append(s, x) : s \in shorter, x \in PortChars}

PortEnvs == {Undefined} \cup {Some(s) : s \in PortStringsUpTo(MaxPortLen)}
PortArgs == {Undefined, Some(<<"3">>), Some(<<"8", "0", "8", "0">>),
             Some(<<"0">>), Some(<<"x">>)}

\* The listener of a server started without PORT and without --port.
DefaultListener ==
    [NotStarted(Undefined, Undefined) EXCEPT
        !.state = "listening", !.port = Some(parseInt(DefaultPort))]

\* A listener in service on the default port, or one about to start.
Listeners ==
    {DefaultListener} \cup {NotStarted(e, a) : e \in PortEnvs, a \in PortArgs}

\* ------------------------------------------------------------------------
\* Specifications
\* ------------------------------------------------------------------------
Init ==
    /\ clientPoolPerToken = [t \in Tokens |-> 0]
    /\ clientsBuilt = 0
    /\ client = 0
    /\ isInitialized = FALSE
    /\ authInfo = Undefined
    /\ authFile \in AuthFiles
    /\ AUTH_TOKEN \in EnvTokens
    /\ gpc = [c \in Callers |-> "idle"]
    /\ gop = [c \in Callers |-> "getClient"]
    /\ gtoken = [c \in Callers |-> Undefined]
    /\ gclient = [c \in Callers |-> 0]
    /\ gresult = [c \in Callers |-> NoResult]
    /\ handed = {}
    /\ gtool = [c \in Callers |-> NoTool]
    /\ disposed = <<>>
    /\ closing = <<>>
    /\ closeErrorLogged = FALSE
    /\ destroyed = FALSE
    /\ req = [r \in Reqs |-> IdleRequest]
    /\ exited = FALSE
    /\ now = 0
    /\ listener \in Listeners

\* The cache of a fresh TransportCache.
EmptyCache ==
    /\ cache = <<>>
    /\ transportsBuilt = 0
    /\ acquireCalls = 0

\* The client pool under concurrent callers, with and without bearer
\* tokens, over whatever the credential store holds when the server starts.
NextPool ==
    \/ \E c \in Callers, h \in AuthHeaders : getClientCalled(c, h)
    \/ \E c \in Callers, h \in AuthHeaders : getAuthStatusCalled(c, h)
    \/ \E c \in Callers : readFileSettles(c)
    \/ \E c \in Callers, ok \in BOOLEAN : meSettles(c, ok)
    \/ \E c \in Callers : callReturns(c)

InitPool ==
    /\ listener = DefaultListener
    /\ AUTH_TOKEN = Undefined
    /\ Init
    /\ EmptyCache

SpecPool == InitPool /\ [][NextPool]_vars

\* The process-wide credential: callers without bearer token while the
\* authenticate and logout commands rewrite the store and time passes.
NextCred ==
    \/ \E c \in Callers : getClientCalled(c, Undefined)
    \/ \E c \in Callers : getAuthStatusCalled(c, Undefined)
    \/ \E c \in Callers : readFileSettles(c)
    \/ \E c \in Callers, ok \in BOOLEAN : meSettles(c, ok)
    \/ \E c \in Callers : callReturns(c)
    \/ \E e \in {NoExpiry, ExpiresSoon, TickMs} : authenticate(e)
    \/ logout
    \/ tick

SpecCred == InitPool /\ [][NextCred]_vars

\* The tool handlers over the service, for a credential store that stays
\* as it was when the server started.
NextTools ==
    \/ \E c \in Callers, tool \in ToolNames, h \in {Undefined, Some(BearerA)} :
          toolCalled(c, tool, h)
    \/ \E c \in Callers, h \in {Undefined, Some(BearerA)}, image \in BOOLEAN :
          sendChannelMessageCalled(c, h, image)
    \/ \E c \in Callers : readFileSettles(c)
    \/ \E c \in Callers, ok \in BOOLEAN : meSettles(c, ok)
    \/ \E c \in Callers : toolContinues(c)
    \/ \E c \in Callers, outcome \in RemoteOutcomes : remoteSettles(c, outcome)
    \/ \E c \in Callers : toolReturns(c)

SpecTools == InitPool /\ [][NextTools]_vars

\* Calls of one bearer identity, under either scheme, next to header-less
\* calls.
NextBearer ==
    \/ \E c \in Callers, h \in {Undefined, Some(BearerA), Some(BasicA)} :
          getClientCalled(c, h)
    \/ \E c \in Callers, h \in {Undefined, Some(BearerA), Some(BasicA)} :
          getAuthStatusCalled(c, h)
    \/ \E c \in Callers : readFileSettles(c)
    \/ \E c \in Callers, ok \in BOOLEAN : meSettles(c, ok)
    \/ \E c \in Callers : callReturns(c)

SpecBearer == InitPool /\ [][NextBearer]_vars

\* create_chat over every list of at most MaxEmails emails, with and
\* without topic, each remote call settling in every way.
NextChat ==
    \/ \E c \in Callers, h \in {Undefined, Some(BearerA)},
          l \in EmailListsUpTo(MaxEmails), t \in Topics :
          createChatAlone(c, h, l, t)
    \/ \E c \in Callers : readFileSettles(c)
    \/ \E c \in Callers : toolContinues(c)
    \/ \E c \in Callers, outcome \in RemoteOutcomes : createChatSettles(c, outcome)
    \/ \E c \in Callers : toolReturns(c)

SpecChat == InitPool /\ [][NextChat]_vars

\* The injected token: the service started with AUTH_TOKEN set to one of a
\* few tokens or not at all, over whatever the credential store holds.
EnvSamples ==
    {Undefined, Some(<<>>), Some(ValidToken), Some(WrongAudienceToken),
     Some(<<"G">>)}

NextEnv ==
    \/ \E c \in Callers : getClientCalled(c, Undefined)
    \/ \E c \in Callers : getAuthInfoSettles(c)
    \/ \E c \in Callers : callReturns(c)
    \/ tick

InitEnv ==
    /\ listener = DefaultListener
    /\ AUTH_TOKEN \in EnvSamples
    /\ Init
    /\ EmptyCache

SpecEnv == InitEnv /\ [][NextEnv]_vars

\* validateToken over every string of at most MaxTokenLen symbols.
NextToken ==
    \/ \E c \in Callers : validateTokenCalled(c)
    \/ \E c \in Callers : callReturns(c)

InitToken ==
    /\ listener = DefaultListener
    /\ authFile = NoFile
    /\ Init
    /\ EmptyCache

SpecToken == InitToken /\ [][NextToken]_vars

\* The server's start over the values of PORT and of the --port option.
NextStart == startMcpServer

InitStart ==
    /\ AUTH_TOKEN = Undefined
    /\ authFile = NoFile
    /\ Init
    /\ EmptyCache
    /\ listener.state = "starting"

SpecStart == InitStart /\ [][NextStart]_vars

\* The request listener with its timer, over a running clock: health
\* checks and POST /mcp requests, whose handling may write, end, return or
\* throw at any time.
NextHttp ==
    \/ \E r \in Reqs : health(r, "GET", "/health")
    \/ \E r \in Reqs : dispatch(r, "POST", "/mcp", Undefined)
    \/ \E r \in Reqs : dispatchThrows(r, "POST", "/mcp", Undefined)
    \/ \E r \in Reqs, ok \in BOOLEAN : connectSettles(r, ok)
    \/ \E r \in Reqs : transportWritesHead(r)
    \/ \E r \in Reqs : transportEnds(r)
    \/ \E r \in Reqs : handleRequestReturns(r)
    \/ \E r \in Reqs : handleRequestThrows(r)
    \/ \E r \in Reqs : timeoutFires(r)
    \/ \E r \in Reqs : reqClose(r)
    \/ \E r \in Reqs : reqError(r)
    \/ tick

\* The server runs with bearer tokens only: no credential store.
InitHttp ==
    /\ listener = DefaultListener
    /\ AUTH_TOKEN = Undefined
    /\ Init
    /\ EmptyCache
    /\ authFile = NoFile

SpecHttp == InitHttp /\ [][NextHttp]_vars

\* The routing of requests of every method, path and session header.
NextRoute ==
    \/ \E r \in Reqs, m \in Methods, u \in Urls : health(r, m, u)
    \/ \E r \in Reqs, m \in Methods, u \in Urls, sid \in SessionHeaders :
          dispatch(r, m, u, sid)
    \/ \E r \in Reqs, m \in Methods, u \in Urls, sid \in SessionHeaders :
          dispatchThrows(r, m, u, sid)
    \/ \E r \in Reqs, ok \in BOOLEAN : connectSettles(r, ok)
    \/ \E r \in Reqs : handleRequestReturns(r)
    \/ \E r \in Reqs : handleRequestThrows(r)

SpecRoute == InitHttp /\ [][NextRoute]_vars

\* The cache next to its capacity: max - 1 earlier requests have come and
\* gone, one after the other, and their entries are still stored.
InitCap ==
    /\ listener = DefaultListener
    /\ AUTH_TOKEN = Undefined
    /\ Init
    /\ authFile = NoFile
    /\ cache = [i \in 1..(max - 1) |-> newCachedTransport(i - 1, 0)]
    /\ transportsBuilt = max - 1
    /\ acquireCalls = max - 1

NextCap ==
    \/ \E r \in Reqs : dispatch(r, "POST", "/mcp", Undefined)
    \/ \E r \in Reqs : connectSettles(r, TRUE)
    \/ \E r \in Reqs : handleRequestReturns(r)
    \/ \E r \in Reqs : forget(r)
    \/ \E ok \in BOOLEAN : closeSettles(ok)
    \/ destroy

SpecCap == InitCap /\ [][NextCap]_vars

\* Every failure the listener and the cache meet, in one run: a transport
\* that cannot be built or connected, a handler that throws, a request that
\* times out or whose connection breaks, and a close() that rejects, with
\* the cache one entry short of its capacity.
NextFaults ==
    \/ \E r \in Reqs : dispatch(r, "POST", "/mcp", Undefined)
    \/ \E r \in Reqs : dispatchThrows(r, "POST", "/mcp", Undefined)
    \/ \E r \in Reqs, ok \in BOOLEAN : connectSettles(r, ok)
    \/ \E r \in Reqs : transportWritesHead(r)
    \/ \E r \in Reqs : handleRequestReturns(r)
    \/ \E r \in Reqs : handleRequestThrows(r)
    \/ \E r \in Reqs : timeoutFires(r)
    \/ \E r \in Reqs : reqError(r)
    \/ \E ok \in BOOLEAN : closeSettles(ok)
    \/ tick

SpecFaults == InitCap /\ [][NextFaults]_vars

\* Acquisitions that succeed and acquisitions that fail, with the cache one
\* entry short of its capacity and request after request.
NextAcquire ==
    \/ \E r \in Reqs : dispatch(r, "POST", "/mcp", Undefined)
    \/ \E r \in Reqs : dispatchThrows(r, "POST", "/mcp", Undefined)
    \/ \E r \in Reqs, ok \in BOOLEAN : connectSettles(r, ok)
    \/ \E r \in Reqs : handleRequestReturns(r)
    \/ \E r \in Reqs : forget(r)
    \/ \E ok \in BOOLEAN : closeSettles(ok)

SpecAcquire == InitCap /\ [][NextAcquire]_vars


\* ------------------------------------------------------------------------
\* Properties
\* ------------------------------------------------------------------------

\* C1: under any interleaving of getClient and getAuthStatus calls with
\* bearer tokens, every client obtained for a token is the pool's entry for
\* that token (the instance built on the first call, never replaced or
\* removed), and two different tokens never share a client.
PoolIsolation ==
    /\ \A p \in handed : clientPoolPerToken[p[1]] = p[2]
    /\ \A p, q \in handed : p[1] # q[1] => p[2] # q[2]
    /\ \A a, b \in Tokens :
          a # b /\ clientPoolPerToken[a] # 0
             => clientPoolPerToken[a] # clientPoolPerToken[b]

\* Token A obtained through getClient and through getAuthStatus at the same
\* time, with the same client, while token B has a client of its own.
PoolIsolationWitness ==
    /\ gop[1] # gop[2]
    /\ gtoken[1] = Some(<<"A">>) /\ gtoken[2] = Some(<<"A">>)
    /\ gclient[1] # 0 /\ gclient[1] = gclient[2]
    /\ clientPoolPerToken[<<"B">>] # 0

\* C2: the cache never holds more than max entries, no transport is listed
\* twice, and a transport whose close is pending is no longer listed.
CapacityBound ==
    /\ Len(cache) <= max
    /\ Cardinality(Keys(cache)) = Len(cache)
    /\ \A i \in DOMAIN closing : closing[i] \notin Keys(cache)

\* A full cache, an evicted transport still closing, a third acquire under way.
CapacityBoundWitness ==
    /\ Len(cache) = max
    /\ closing # <<>>
    /\ \E r \in Reqs : req[r].pc = "connecting"

\* C3: storing an entry in a cache of max entries evicts exactly one entry,
\* the one stored longest ago, and calls close on its transport once.
EvictsOldestOnce ==
    [][(Len(cache) = max /\ transportsBuilt' # transportsBuilt) =>
          /\ cache' = Append(Tail(cache), newCachedTransport(transportsBuilt, now))
          /\ \A i \in DOMAIN cache : Head(cache).id <= cache[i].id
          /\ Len(disposed') = Len(disposed) + 1
          /\ disposed'[Len(disposed')].id = Head(cache).id
          /\ CloseCalls(disposed', Head(cache).id) = 1]_vars

\* The cache is full again after an eviction.
EvictsOldestOnceWitness ==
    /\ Len(cache) = max
    /\ \E i \in DOMAIN disposed : disposed[i].reason = "evict"

\* C4: no entry stays in the cache beyond its ttl.
ExpiredEntriesEvicted ==
    \A i \in DOMAIN cache : now - cache[i].start <= ttl

FreshTransportPerRequest ==
    /\ \A r1, r2 \in Reqs :
          (r1 # r2 /\ req[r1].cachedTransport # 0 /\ req[r2].cachedTransport # 0)
             => req[r1].cachedTransport # req[r2].cachedTransport
    /\ transportsBuilt = Cardinality({r \in Reqs : req[r].cachedTransport # 0})
    /\ Cardinality(Keys(cache)) = transportsBuilt

\* Two requests with the same mcp-session-id header, each with a transport.
FreshTransportPerRequestWitness ==
    \E r1, r2 \in Reqs :
       /\ r1 # r2
       /\ req[r1].sessionId = Some([src |-> "header", n |-> 1])
       /\ req[r2].sessionId = req[r1].sessionId
       /\ req[r1].cachedTransport # 0
       /\ req[r2].cachedTransport # 0

DestroyClosesAll ==
    [][(~destroyed /\ destroyed') =>
          /\ cache' = <<>>
          /\ Len(disposed') = Len(disposed) + Len(cache)
          /\ \A i \in DOMAIN cache : CloseCalls(disposed', cache[i].id) = 1]_vars

\* destroy has run on a cache of several entries.
DestroyClosesAllWitness ==
    /\ destroyed
    /\ cache = <<>>
    /\ Len(closing) >= max - 1

\* C9: a GET /health request is answered with 200 and the four fields, and
\* its handling calls no acquire and changes neither the cache nor the pool.
HealthTouchesNothing ==
    [][\A r \in Reqs :
          (/\ req[r].pc = "idle"
           /\ req'[r].pc # "idle"
           /\ req'[r].method = "GET"
           /\ req'[r].url = "/health") =>
             /\ req'[r].responses = <<HealthResponse>>
             /\ req'[r].pc = "returned"
             /\ acquireCalls' = acquireCalls
             /\ UNCHANGED <<cache, transportsBuilt, disposed, closing>>
             /\ UNCHANGED <<clientPoolPerToken, client, isInitialized>>]_vars

\* A health check answered while another request's transport is cached.
HealthTouchesNothingWitness ==
    \E r \in Reqs :
       /\ req[r].method = "GET" /\ req[r].url = "/health"
       /\ req[r].responses = <<HealthResponse>>
       /\ cache # <<>>

\* C10: when getTransport or handleRequest throws, the catch clears the
\* timer and writes exactly one internal-error response if no headers have
\* been sent, and nothing otherwise.
DispatchErrorAnswered ==
    [][\A r \in Reqs :
          (\/ \E m \in Methods, u \in Urls, sid \in SessionHeaders :
                 dispatchThrows(r, m, u, sid)
           \/ connectSettles(r, FALSE)
           \/ handleRequestThrows(r)) =>
             /\ req'[r].timeout # "armed"
             /\ ~req'[r].headersSentError
             /\ req'[r].responses =
                   IF req[r].headersSent THEN req[r].responses
                   ELSE <<InternalErrorResponse>>]_vars

\* Both cases: an internal-error response, and an error after the timeout
\* response that writes nothing.
DispatchErrorAnsweredWitness ==
    \E r1, r2 \in Reqs :
       /\ req[r1].responses = <<InternalErrorResponse>>
       /\ req[r1].timeout = "cleared"
       /\ req[r2].pc = "returned"
       /\ req[r2].dispatched
       /\ req[r2].responses = <<TimeoutResponse>>

\* C11: once the response has been ended, or the request has closed or
\* errored, the request's timer is no longer armed; a timer that is not armed
\* stays so and no timeout response is written afterwards; and the close or
\* error of the request leaves its handling where it was (nothing in flight
\* is cancelled).
TimerClearedForGood ==
    [][\A r \in Reqs :
          /\ req'[r].writableEnded => req'[r].timeout # "armed"
          /\ (reqClose(r) \/ reqError(r)) =>
                /\ req'[r].timeout # "armed"
                /\ req'[r].pc = req[r].pc
                /\ req'[r].cachedTransport = req[r].cachedTransport
                /\ UNCHANGED <<cache, closing, disposed>>
          /\ (req[r].pc # "idle" /\ req[r].timeout # "armed") =>
                /\ req'[r].timeout = req[r].timeout
                /\ (req'[r].responses # req[r].responses =>
                       req'[r].responses # <<TimeoutResponse>>)]_vars

\* The request closed while its transport was being connected: the timer was
\* cleared, the deadline has passed without a response, and the handling
\* went on to transport.handleRequest.
TimerClearedForGoodWitness ==
    \E r \in Reqs :
       /\ req[r].timeout = "cleared"
       /\ req[r].responses = <<>>
       /\ req[r].pc = "handling"
       /\ now >= 2 * requestTimeout

\* C12: a tool invoked without an Authorization header while no credential
\* store exists answers with a failure text that carries the remediation
\* phrase.
UnauthenticatedToolsFail ==
    \A c \in Callers :
       (/\ gpc[c] = "answered"
        /\ gtool[c].authorization = Undefined
        /\ authFile = NoFile) =>
          /\ Head(gresult[c].text) = FailureIndicator
          /\ Contains(gresult[c].text, Remediation)

\* C13: when the read of the store settles with a token whose expiresAt is
\* not later than the current time, no client is built, the service stays
\* uninitialized, and the call ends with the Unauthenticated error
\* (getClient) or with isAuthenticated false (getAuthStatus).
ExpiredTokenRefused ==
    [][\A c \in Callers :
          (/\ readFileSettles(c)
           /\ authFile.kind = "json"
           /\ authFile.authenticated
           /\ authFile.expiresAt # NoExpiry
           /\ authFile.expiresAt <= now) =>
             /\ clientsBuilt' = clientsBuilt
             /\ ~isInitialized'
             /\ gresult'[c] = IF gop[c] = "getClient" THEN NotAuthenticatedError
                               ELSE AuthStatus(FALSE, NoExpiry)]_vars

\* C14: at most one client is alive per identity: the callers that hold a
\* client for the process-wide identity hold the same one, as do the
\* callers that hold a client for the same bearer token.
OneClientPerIdentity ==
    \A c, d \in Callers :
       (gclient[c] # 0 /\ gclient[d] # 0 /\ gtoken[c] = gtoken[d]) =>
          gclient[c] = gclient[d]

\* An Authorization header of the form "Bearer <token>".
IsBearerHeader(authorization) ==
    /\ authorization # Undefined
    /\ Len(authorization[1]) > Len(BearerOnly) + 1
    /\ SubSeq(authorization[1], 1, Len(BearerOnly) + 1) = Append(BearerOnly, " ")
    /\ \A i \in (Len(BearerOnly) + 2)..Len(authorization[1]) :
          authorization[1][i] # " "

\* C15: the identity of a call is the raw token exactly when its header has
\* the form "Bearer <token>", and the process-wide sentinel otherwise.
BearerIdentityOnly ==
    [][\A c \in Callers, h \in AuthHeaders :
          (getClientCalled(c, h) \/ getAuthStatusCalled(c, h)) =>
             IF IsBearerHeader(h)
             THEN gtoken'[c] =
                     Some(SubSeq(h[1], Len(BearerOnly) + 2, Len(h[1])))
             ELSE ~Truthy(gtoken'[c])]_vars


\* The store holds a token that is usable at time t.
FileUsable(f, t) ==
    /\ f.kind = "json"
    /\ f.authenticated
    /\ f.token # <<>>
    /\ (f.expiresAt = NoExpiry \/ f.expiresAt > t)

\* A string with exactly three dot-delimited segments whose middle segment
\* is one block holding a JSON object with the Graph audience, alone or in
\* an array.
AcceptableToken(t) ==
    /\ Cardinality({i \in 1..Len(t) : t[i] = "."}) = 2
    /\ \E i \in 1..Len(t) :
          /\ t[i] = "."
          /\ i + 2 <= Len(t)
          /\ t[i + 2] = "."
          /\ t[i + 1] \in {"G", "L"}
          /\ \A k \in 1..(i - 1) : t[k] # "."

\* C16: a call for the process-wide identity fails with the Unauthenticated
\* error if and only if neither AUTH_TOKEN nor the credential store yields a
\* usable token that has not expired.
SentinelFailsIffNoToken ==
    [][\A c \in Callers :
          (getAuthInfoSettles(c) /\ gop[c] = "getClient") =>
             (gresult'[c] = NotAuthenticatedError
                <=> ~(\/ (Truthy(AUTH_TOKEN) /\ AcceptableToken(AUTH_TOKEN[1]))
                      \/ FileUsable(authFile, now)))]_vars

\* C17: validateToken returns the token unchanged exactly when the token
\* has three dot-delimited segments and a payload with the Graph audience,
\* and undefined otherwise.
ValidateTokenStructural ==
    \A c \in Callers :
       (gpc[c] = "done" /\ gop[c] = "validateToken") =>
          gresult[c].value = IF AcceptableToken(AUTH_TOKEN[1])
                             THEN AUTH_TOKEN
                             ELSE Undefined

ValidateTokenStructuralWitness ==
    \E c \in Callers :
       /\ gpc[c] = "done"
       /\ gop[c] = "validateToken"
       /\ AUTH_TOKEN = Some(<<"O", ".", "L", ".">>)
       /\ gresult[c].value = AUTH_TOKEN


\* C18: while a request's transport is being acquired and while the transport
\* handles it, the session context is {sessionId} of that request: the
\* mcp-session-id header when the request has one, a fresh id otherwise.
DispatchInSessionContext ==
    \A r \in Reqs :
       req[r].pc \in {"connecting", "handling"} =>
          /\ req[r].sessionId # Undefined
          /\ req[r].context = req[r].sessionId


\* A PORT value that is a decimal numeral.
IsNumeral(s) == s # <<>> /\ \A i \in 1..Len(s) : s[i] \in {"0", "3", "8"}

\* The number a decimal numeral denotes.
RECURSIVE Pow10(_)
Pow10(n) == IF n = 0 THEN 1 ELSE 10 * Pow10(n - 1)

RECURSIVE NumeralValueFrom(_, _)
NumeralValueFrom(s, i) ==
    IF i > Len(s) THEN 0
    ELSE (CASE s[i] = "0" -> 0 [] s[i] = "3" -> 3 [] s[i] = "8" -> 8)
            * Pow10(Len(s) - i)
         + NumeralValueFrom(s, i + 1)

AcquireFailureContained ==
    [][\A r \in Reqs :
          (\/ dispatchThrows(r, "POST", "/mcp", Undefined)
           \/ connectSettles(r, FALSE)) =>
             /\ req'[r].pc = "returned"
             /\ req'[r].responses =
                   IF req[r].headersSent THEN req[r].responses
                   ELSE <<InternalErrorResponse>>
             /\ UNCHANGED <<cache, disposed, closing, transportsBuilt>>
             /\ ~exited' /\ ~destroyed']_vars

\* A request has failed in getTransport and another one has since been given
\* a transport whose insertion evicted the oldest entry.
AcquireFailureContainedWitness ==
    \E r1, r2 \in Reqs :
       /\ req[r1].responses = <<InternalErrorResponse>>
       /\ req[r1].cachedTransport = 0
       /\ req[r2].pc = "handling"
       /\ req[r2].cachedTransport = max + 1
       /\ Len(cache) = max
       /\ Len(disposed) = 1


\* A text that begins with the failure indicator and holds the message.
IsFailureText(text, message) ==
    /\ Head(text) = FailureIndicator
    /\ \A i \in DOMAIN message : Contains(text, message[i])

\* C22: whenever getClient or a remote call of a tool fails, the handler
\* answers with a text that begins with the failure indicator and holds the
\* error's message, or "Unknown error occurred" for a value that is no Error.
ToolFailuresAreFailureTexts ==
    [][\A c \in Callers :
          /\ (toolContinues(c) /\ gresult[c].kind = "error") =>
                IsFailureText(gresult'[c].text, gresult[c].message)
          /\ \A outcome \in {"error", "thrown"} :
                remoteSettles(c, outcome) =>
                   /\ gpc'[c] = "answered"
                   /\ IsFailureText(gresult'[c].text, errorMessage(outcome))]_vars


\* C23: the payload create_chat posts has the current user as owner, then
\* one member per email in the order given; it is "oneOnOne" exactly for one
\* email, and it has the topic exactly when a topic was given with more than
\* one email.
CreateChatPayloadShape ==
    \A c \in Callers :
       (gtool[c].name = "create_chat" /\ gtool[c].posted # Undefined) =>
          LET inv == gtool[c]
              p == inv.posted[1]
              n == Len(inv.userEmails)
          IN /\ Len(p.members) = n + 1
             /\ p.members[1].roles = <<"owner">>
             /\ p.members[1].user \in {Undefined, Some(<<"id", "me">>)}
             /\ \A i \in 1..n :
                   /\ p.members[i + 1].roles = <<"member">>
                   /\ p.members[i + 1].user
                         \in {Undefined, Some(<<"id", inv.userEmails[i]>>)}
             /\ (p.chatType = "oneOnOne" <=> n = 1)
             /\ (p.chatType = "group" <=> n # 1)
             /\ p.topic = IF inv.topic \notin {Undefined, Some(<<>>)} /\ n > 1
                          THEN inv.topic ELSE Undefined

CreateChatPayloadShapeWitness ==
    \E c \in Callers :
       /\ gtool[c].name = "create_chat"
       /\ gtool[c].userEmails = <<"b@x", "a@x">>
       /\ gtool[c].posted # Undefined
       /\ gtool[c].posted[1].topic = Some(<<"t">>)
       /\ gtool[c].posted[1].members[2].user = Some(<<"id", "b@x">>)
       /\ gresult[c] = ChatCreatedText

\* C24: a failing getClient, a failing lookup of the current user or of an
\* email ends create_chat with the failure text of that error and without
\* any POST; a failing POST ends it with a failure text as well.
CreateChatStopsAtFailure ==
    [][\A c \in Callers :
          /\ (toolContinues(c) /\ gtool[c].name = "create_chat"
               /\ gresult[c].kind = "error") =>
                /\ gtool'[c].posted = Undefined
                /\ IsFailureText(gresult'[c].text, gresult[c].message)
          /\ \A outcome \in {"error", "thrown"} :
                createChatSettles(c, outcome) =>
                   /\ gtool'[c].posted = gtool[c].posted
                   /\ (gtool[c].stage # "post" => gtool'[c].posted = Undefined)
                   /\ gpc'[c] = "answered"
                   /\ IsFailureText(gresult'[c].text, errorMessage(outcome))]_vars

CreateChatStopsAtFailureWitness ==
    \E c \in Callers :
       /\ gtool[c].name = "create_chat"
       /\ Len(gtool[c].userEmails) = 2
       /\ Len(gtool[c].members) = 2
       /\ gtool[c].posted = Undefined
       /\ gpc[c] = "answered"
       /\ gresult[c] = ErrorText(RemoteErrorMessage)


\* C25: while a request is being handled (handleRequest has not returned),
\* the transport acquired for it has not been closed by an eviction or by
\* teardown.
OpenWhileHandled ==
    \A r \in Reqs :
       req[r].pc = "handling" => CloseCalls(disposed, req[r].cachedTransport) = 0


\* C26: whenever a handler serving a request with bearer credential T has a
\* remote call under way, the call goes through the client pooled for T,
\* which is never the client of the process-wide credential.
BearerCallsUsePooledClient ==
    \A c \in Callers :
       (gpc[c] = "remote" /\ IsBearerHeader(gtool[c].authorization)) =>
          LET token == TokenOf(gtool[c].authorization)[1]
          IN /\ clientPoolPerToken[token] # 0
             /\ gclient[c] = clientPoolPerToken[token]


\* C27: the status getAuthStatus returns for a bearer identity is determined
\* by the outcome of that bearer's own /me call; its expiresAt is not the
\* one of the process-wide credential.
BearerStatusOwnCredential ==
    [][\A c \in Callers, ok \in BOOLEAN :
          (meSettles(c, ok) /\ Truthy(gtoken[c])) =>
             gresult'[c] = AuthStatus(ok, NoExpiry)]_vars


\* C28: a getClient call for the process-wide identity that returns a client
\* returns it before the expiresAt of the token loaded from the store.
ProcessWideClientNotExpired ==
    [][\A c \in Callers :
          (/\ getClientCalled(c, Undefined) \/ readFileSettles(c)
           /\ gop'[c] = "getClient"
           /\ gresult'[c].kind = "client") =>
             \/ ExpiresAtOf(authInfo') = NoExpiry
             \/ now < ExpiresAtOf(authInfo')]_vars


\* C29: a getClient call for the process-wide identity that fails as
\* Unauthenticated leaves no client and the service uninitialized; a call
\* made while the service is uninitialized reads the store, and it returns a
\* client when the store then holds a valid, unexpired token.
UnauthenticatedNotSticky ==
    [][\A c \in Callers :
          /\ ((getClientCalled(c, Undefined) \/ readFileSettles(c))
                /\ gresult'[c] = NotAuthenticatedError) =>
                   (client' = 0 /\ ~isInitialized')
          /\ (getClientCalled(c, Undefined) /\ ~isInitialized) =>
                   gpc'[c] = "reading"
          /\ (readFileSettles(c) /\ gop[c] = "getClient"
                /\ FileUsable(authFile, now)) =>
                   (gresult'[c].kind = "client" /\ gresult'[c].client = client'
                    /\ client' # 0)]_vars

UnauthenticatedNotStickyWitness ==
    \E c, d \in Callers :
       /\ gpc[c] = "done" /\ gresult[c] = NotAuthenticatedError
       /\ gpc[d] = "done" /\ gop[d] = "getClient" /\ gresult[d].kind = "client"
       /\ gtoken[d] = Undefined
       /\ isInitialized


\* The headers from which the code takes an identity.
IdentityHeaders == {h \in AuthHeaders : Truthy(TokenOf(h))}

\* C30: getClient and getAuthStatus with a bearer identity obtain a client
\* whatever the token is, without reading the credential store, and no step
\* of such a call changes the process-wide client, its initialized flag or
\* its stored auth info.
BearerCallsLeaveProcessWideState ==
    [][\A c \in Callers :
          /\ gpc[c] = "idle" =>
                \A h \in IdentityHeaders :
                   /\ getClientCalled(c, h) =>
                         /\ gpc'[c] = "done"
                         /\ gresult'[c].kind = "client"
                         /\ gresult'[c].client = clientPoolPerToken'[TokenOf(h)[1]]
                         /\ gresult'[c].client # 0
                         /\ UNCHANGED <<client, isInitialized, authInfo>>
                   /\ getAuthStatusCalled(c, h) =>
                         /\ gpc'[c] = "me"
                         /\ gclient'[c] = clientPoolPerToken'[TokenOf(h)[1]]
                         /\ gclient'[c] # 0
                         /\ UNCHANGED <<client, isInitialized, authInfo>>
          /\ (gpc[c] = "me" /\ Truthy(gtoken[c])) =>
                \A ok \in BOOLEAN :
                   meSettles(c, ok) => UNCHANGED <<client, isInitialized, authInfo>>]_vars

BearerCallsLeaveProcessWideStateWitness ==
    \E c, d \in Callers :
       /\ gpc[c] = "done" /\ Truthy(gtoken[c])
       /\ gresult[c].kind = "client"
       /\ gpc[d] = "done" /\ ~Truthy(gtoken[d])
       /\ gresult[d].kind = "client"
       /\ isInitialized /\ client = gresult[d].client
       /\ client # gresult[c].client

=============================================================================
